---- MODULE Spec2Model ----
(***************************************************************************)
(* A model of the CLF-QP network (neural_clf/controllers/clf_uK_qp_net.py) *)
(* and of the training script that drives it                               *)
(* (neural_clf/training/quad9d_robust_clf_qp.py).                          *)
(*                                                                         *)
(* Real numbers are integers here; a quantity that the code divides        *)
(* (an average, a mean) is an exact fraction [num, den].  The outputs of   *)
(* the torch layers and of the dynamics oracle at a state x are inputs of  *)
(* the actions, drawn from small sets.  A batch is a sequence of elements. *)
(***************************************************************************)
EXTENDS Integers, Sequences, FiniteSets, TLC

VARIABLES
    cfg,      \* the arguments of the last call of CLF_K_QP_Net.__init__
    net,      \* the network object: its attributes, its QP layer
    err,      \* the exception the last constructor call raised, or "none"
    fwd,      \* the last call of CLF_K_QP_Net.forward: inputs, locals, returns
    lossrec,  \* the last call of lyapunov_loss / controller_loss
    train,    \* the training script's module-level state
    calls     \* the calls of compute_lyapunov and forward made so far, in order

vars == <<cfg, net, err, fwd, lossrec, train, calls>>

(***************************************************************************)
(* Bounds of the model and the value sets the inputs are drawn from.       *)
(***************************************************************************)
MaxBatch == 2
MaxCalls == 2
MaxEpochs == 3
MaxLoss == 2
NTrain == 3
BatchSize == 2

ScenarioLists == {<<>>, <<"m_low">>, <<"m_low", "m_high">>}
NInputVals == {1}
NHiddenVals == {1}
NControlsVals == {1, 2}
LambdaVals == {1}
PenaltyVals == {2}
ActVals == {-2, 0, 2}
LfVals == {-3, 1}
DVVals == {1}
LgVals == {0, 1}
KVals == {0, 1}
DxVals == {1}
UGrid == {-1, 0, 1}

(***************************************************************************)
(* Arithmetic helpers.                                                     *)
(***************************************************************************)
RECURSIVE SeqSum(_)
SeqSum(s) == IF s = <<>> THEN 0 ELSE Head(s) + SeqSum(Tail(s))

Dot(a, b) == SeqSum([i \in 1..Len(a) |-> a[i] * b[i]])

\* F.relu
relu(v) == IF v > 0 THEN v ELSE 0

Rat(n, d) == [num |-> n, den |-> d]
RIsZero(a) == a.num = 0
REq(a, b) == a.num * b.den = b.num * a.den
RLe(a, b) == a.num * b.den <= b.num * a.den
RAdd(a, b) == Rat(a.num * b.den + b.num * a.den, a.den * b.den)
RMul(a, b) == Rat(a.num * b.num, a.den * b.den)
RInt(n) == Rat(n, 1)

Vectors(S, n) == [1..n -> S]

\* The function f with every value computed once (TLC computes the values of
\* [x \in S |-> e] anew at each application otherwise).
Strict(f) == f @@ <<>>

(***************************************************************************)
(* Construction: CLF_K_QP_Net.__init__                                     *)
(***************************************************************************)
\* The control polytopes a caller may pass as (G_u, h_u).  dims is the number
\* of dimensions of the G_u tensor: the default torch.tensor([]) has one.
PNone        == [dims |-> 1, G |-> <<>>, cols |-> 0, h |-> <<>>]
PBox         == [dims |-> 2, G |-> << <<1, 0>>, <<-1, 0>> >>, cols |-> 2, h |-> <<1, 1>>]
PNeg         == [dims |-> 2, G |-> << <<1, 0>> >>, cols |-> 2, h |-> <<-1>>]
PInfeasible  == [dims |-> 2, G |-> << <<1, 0>>, <<-1, 0>> >>, cols |-> 2, h |-> <<-1, -1>>]
PRowMismatch == [dims |-> 2, G |-> << <<1, 0>> >>, cols |-> 2, h |-> <<1, 1>>]
PColMismatch == [dims |-> 2, G |-> << <<1>> >>, cols |-> 1, h |-> <<1>>]
PZeroRows    == [dims |-> 2, G |-> <<>>, cols |-> 3, h |-> <<>>]
Polytopes == {PNone, PBox, PNeg, PInfeasible, PRowMismatch, PColMismatch, PZeroRows}

\* The names of the cvxpy parameters and variables of the QP.
LfParam(i) == [p |-> "L_f_V", i |-> i]
LgParam(i) == [p |-> "L_g_V", i |-> i]
VParam == [p |-> "V", i |-> 0]
UNomParam == [p |-> "u_nominal", i |-> 0]
PenParam == [p |-> "clf_relaxation_penalty_param", i |-> 0]
UVar == [v |-> "u", i |-> 0]
RVar(i) == [v |-> "clf_relaxation", i |-> i]

\* A slip in the order of the parameter list: the L_f_V parameters reversed.
QPParametersReversed(n) ==
    [i \in 1..n |-> LfParam(n + 1 - i)] \o [i \in 1..n |-> LgParam(i)]
        \o <<VParam, UNomParam, PenParam>>

\* parameters = L_f_Vs + L_g_Vs + [V, u_nominal, clf_relaxation_penalty_param]
QPParameters(n) ==
    [i \in 1..n |-> LfParam(i)] \o [i \in 1..n |-> LgParam(i)]
        \o <<VParam, UNomParam, PenParam>>

\* variables = [u] + clf_relaxations
QPVariables(n) == <<UVar>> \o [i \in 1..n |-> RVar(i)]

\* The products of the problem's expressions, each as the pair of what its two
\* factors are ("const", "param" or "var"): L_g_Vs[i] @ u and clf_lambda * V
\* in every CLF constraint, G_u @ u, and multiply(penalty, r) in the objective.
QPProducts(n, lambda_kind, with_bounds) ==
    {<<"param", "var">>, <<lambda_kind, "param">>}
        \cup (IF with_bounds THEN {<<"const", "var">>} ELSE {})

\* problem.is_dpp(): no product of two parameter-dependent factors.
is_dpp(products) == \A pr \in products : ~(pr[1] = "param" /\ pr[2] = "param")

\* __init__ without the assertion on the sizes of G_u and h_u.
InitErrorNoSizeCheck(a) ==
    IF ~(Len(a.scenarios) > 0)
        THEN "AssertionError: Must pass at least one scenario"
    ELSE IF Len(a.poly.G) > 0 /\ a.poly.cols # a.n_controls
        THEN "ValueError: Incompatible dimensions"
    ELSE IF ~is_dpp(QPProducts(Len(a.scenarios), a.lambda_kind, Len(a.poly.G) > 0))
        THEN "AssertionError: problem.is_dpp()"
    ELSE "none"

\* The outcome of __init__ on the arguments a: the exception it raises, in the
\* order the code reaches them, or "none".
InitError(a) ==
    IF ~(Len(a.scenarios) > 0)
        THEN "AssertionError: Must pass at least one scenario"
    ELSE IF ~(Len(a.poly.G) = Len(a.poly.h))
        THEN "AssertionError: G_u and h_u must have consistent dimensions"
    ELSE IF Len(a.poly.G) > 0 /\ a.poly.cols # a.n_controls
        THEN "ValueError: Incompatible dimensions"
    ELSE IF ~is_dpp(QPProducts(Len(a.scenarios), a.lambda_kind, Len(a.poly.G) > 0))
        THEN "AssertionError: problem.is_dpp()"
    ELSE "none"

NoNet == [built |-> FALSE]
NoCfg == [tried |-> FALSE]
NoFwd == [status |-> "none"]

\* The object __init__ leaves behind when it returns.
BuiltNet(a) ==
    [built |-> TRUE,
     scenarios |-> a.scenarios,
     n_input |-> a.n_input,
     n_hidden |-> a.n_hidden,
     n_controls |-> a.n_controls,
     clf_lambda |-> a.clf_lambda,
     clf_relaxation_penalty |-> a.clf_relaxation_penalty,
     u_eq |-> a.u_eq,
     G_u |-> a.poly.G,
     h_u |-> a.poly.h,
     use_QP |-> TRUE,
     qp_parameters |-> QPParameters(Len(a.scenarios)),
     qp_variables |-> QPVariables(Len(a.scenarios)),
     qp_bounded |-> Len(a.poly.G) > 0,
     dyn |-> {}]

ConstructArgs ==
    [tried : {TRUE},
     scenarios : ScenarioLists,
     n_input : NInputVals,
     n_hidden : NHiddenVals,
     n_controls : NControlsVals,
     clf_lambda : LambdaVals,
     lambda_kind : {"const", "param"},
     clf_relaxation_penalty : PenaltyVals,
     u_eq : {<<1>>, <<1, 1>>},
     poly : Polytopes]

Construct ==
    /\ ~net.built
    /\ \E a \in ConstructArgs :
        /\ Len(a.u_eq) = a.n_controls
        /\ cfg' = a
        /\ err' = InitError(a)
        /\ net' = IF InitError(a) = "none" THEN BuiltNet(a) ELSE NoNet
    /\ UNCHANGED <<fwd, lossrec, train, calls>>

\* clf_net.use_QP = ... : the caller's toggle.
SetUseQP ==
    /\ net.built
    /\ \E b \in BOOLEAN :
        /\ b # net.use_QP
        /\ net' = [net EXCEPT !.use_QP = b]
    /\ UNCHANGED <<cfg, err, fwd, lossrec, train, calls>>

(***************************************************************************)
(* compute_lyapunov and compute_controls                                   *)
(***************************************************************************)
\* 0.5 * v, for the even v the model's activations produce.
Half(v) == v \div 2

\* Half the sum of the activations, not of their squares.
LyapunovValueUnsquared(act) == Half(SeqSum(act))

\* V = 0.5 * (Vfc2_act * Vfc2_act).sum(1), for one batch element.
LyapunovValue(act) == Half(SeqSum([j \in 1..Len(act) |-> act[j] * act[j]]))

\* grad_V = torch.bmm(Vfc2_act.unsqueeze(1), DVfc2_act), for one batch element:
\* DVfc2_act is the Jacobian of the second layer, n_hidden x n_input.
GradV(act, DVfc2_act) ==
    [k \in 1..Len(DVfc2_act[1]) |->
        SeqSum([h \in 1..Len(act) |-> act[h] * DVfc2_act[h][k]])]

\* compute_lyapunov at one batch element: (V, grad_V).
ComputeLyapunov(e) ==
    [V |-> LyapunovValue(e.act), grad_V |-> GradV(e.act, e.DVfc2_act)]

\* L_f_Vs = grad_V f and L_g_Vs = grad_V g: with a zero gradient they are
\* zero whatever the oracle returns; otherwise f and g decide them.
LieDerivativesOf(grad_V, L_f_Vs, L_g_Vs) ==
    IF \A k \in 1..Len(grad_V) : grad_V[k] = 0
    THEN /\ \A s \in 1..Len(L_f_Vs) : L_f_Vs[s] = 0
         /\ \A s \in 1..Len(L_g_Vs) : \A c \in 1..Len(L_g_Vs[s]) : L_g_Vs[s][c] = 0
    ELSE \A s \in 1..Len(L_f_Vs) : L_f_Vs[s] \in LfVals

\* torch.stack((K1, K2), dim=1): the number of rows of the gain the code builds.
NGainRows == 2

\* -1.0 * torch.bmm(K, (x - self.x_goal).unsqueeze(-1)) + self.u_eq for one
\* batch element: K has NGainRows rows, u_eq.T has n_controls rows and is
\* broadcast against the NGainRows rows of the product.
ComputeControls(n, K, dx) ==
    LET Kdx == [r \in 1..NGainRows |-> -1 * Dot(K[r], dx)]
        m == Len(n.u_eq)
    IN  IF m = NGainRows
            THEN [ok |-> TRUE, K_rows |-> Len(K), K_cols |-> Len(K[1]),
                  u |-> [r \in 1..NGainRows |-> Kdx[r] + n.u_eq[r]]]
        ELSE IF m = 1
            THEN [ok |-> TRUE, K_rows |-> Len(K), K_cols |-> Len(K[1]),
                  u |-> [r \in 1..NGainRows |-> Kdx[r] + n.u_eq[1]]]
        ELSE [ok |-> FALSE, K_rows |-> Len(K), K_cols |-> Len(K[1])]

(***************************************************************************)
(* The QP layer: binding of the parameters and the solve.                  *)
(***************************************************************************)
SetMax(S) == CHOOSE m \in S : \A k \in S : k <= m

\* The largest relaxation any parameter values of the model can require.
RMax(n) ==
    SetMax(LfVals) + n.n_controls * SetMax(LgVals) * SetMax(UGrid)
        + n.clf_lambda * LyapunovValue([j \in 1..n.n_hidden |-> SetMax(ActVals)])

SeqIndex(s, e) == CHOOSE i \in 1..Len(s) : s[i] = e

\* self.qp_layer(*args): the i-th positional argument becomes the value of the
\* i-th parameter of the list given to CvxpyLayer at construction.
BindParameters(params, args) ==
    Strict([nm \in {params[i] : i \in 1..Len(params)} |-> args[SeqIndex(params, nm)]])

\* L_f_Vs[i] + L_g_Vs[i] @ u + self.clf_lambda * V, the part of the CLF
\* constraint that the relaxation is subtracted from.
CLFExpression(b, lambda, i, u) ==
    b[LfParam(i)] + Dot(b[LgParam(i)], u) + lambda * b[VParam]

\* A sign slip: the relaxation added instead of subtracted.
CLFConstraintAdded(e, ri) == e + ri <= 0

\* L_f_Vs[i] + L_g_Vs[i] @ u + self.clf_lambda * V - clf_relaxations[i] <= 0
CLFConstraint(e, ri) == e - ri <= 0

\* clf_relaxations[i] >= 0
RelaxationConstraint(ri) == ri >= 0

\* self.G_u @ u <= self.h_u
ControlConstraint(G, h, u) == \A k \in 1..Len(G) : Dot(G[k], u) <= h[k]

\* Whether (u, r) satisfies every constraint of the problem built at
\* construction, the parameters having the values b.
QPFeasible(n, b, u, r) ==
    /\ \A i \in 1..Len(n.scenarios) :
        /\ CLFConstraint(CLFExpression(b, n.clf_lambda, i, u), r[i])
        /\ RelaxationConstraint(r[i])
    /\ n.qp_bounded => ControlConstraint(n.G_u, n.h_u, u)

\* cp.sum_squares(u - u_nominal) + sum of cp.multiply(penalty, r)
QPObjective(b, u, r) ==
    SeqSum([c \in 1..Len(u) |-> (u[c] - b[UNomParam][c]) * (u[c] - b[UNomParam][c])])
        + SeqSum([i \in 1..Len(r) |-> b[PenParam] * r[i]])

\* The solver: the minimisers of the objective over the points of the grid that
\* satisfy the constraints, each as <<objective, u, r>>; the empty set when no
\* point of the grid does.
QPSolve(n, b) ==
    LET ns == Len(n.scenarios)
        US == {u \in Vectors(UGrid, n.n_controls) :
                  n.qp_bounded => ControlConstraint(n.G_u, n.h_u, u)}
        RS == Vectors(0..RMax(n), ns)
        cand == UNION {
                    LET e == Strict([i \in 1..ns |-> CLFExpression(b, n.clf_lambda, i, u)])
                    IN  {<<QPObjective(b, u, r), u, r>> :
                            r \in {q \in RS : \A i \in 1..ns :
                                      CLFConstraint(e[i], q[i]) /\ RelaxationConstraint(q[i])}}
                    : u \in US}
        costs == {c[1] : c \in cand}
        best == CHOOSE c \in costs : \A d \in costs : c <= d
    IN  {c \in cand : c[1] = best}

\* result = self.qp_layer(...): the values of the problem's variables in the
\* order of the list given to CvxpyLayer at construction.
QPResult(variables, sol) ==
    [k \in 1..Len(variables) |->
        IF variables[k] = UVar THEN sol[2] ELSE sol[3][variables[k].i]]

(***************************************************************************)
(* CLF_K_QP_Net.forward, on a batch                                        *)
(***************************************************************************)
\* What forward reads of one element x of the batch: the layers' outputs at x
\* (Vfc2_act, the rows K1 and K2), x - x_goal, and the Lie derivatives of V
\* along the oracle's f and g in each scenario.
ElementsOver(n, ks, lgs) ==
    {e \in [act : Vectors(ActVals, n.n_hidden),
            DVfc2_act : Vectors(Vectors(DVVals, n.n_input), n.n_hidden),
            K : Vectors(Vectors(ks, n.n_input), NGainRows),
            dx : Vectors(DxVals, n.n_input),
            L_f_Vs : Vectors(LfVals \cup {0}, Len(n.scenarios)),
            L_g_Vs : Vectors(Vectors(lgs \cup {0}, n.n_controls), Len(n.scenarios))] :
        LieDerivativesOf(GradV(e.act, e.DVfc2_act), e.L_f_Vs, e.L_g_Vs)}

Elements(n) == ElementsOver(n, KVals, LgVals)

\* The elements with a zero gain and zero Lie derivatives along g.
ReducedElements(n) == ElementsOver(n, {0}, {0})

\* The batches forward is called on: every one-element batch, and the longer
\* batches of reduced elements.
FwdBatches(n) ==
    {<<e>> : e \in Elements(n)}
        \cup UNION {Vectors(ReducedElements(n), k) : k \in 2..MaxBatch}

\* a += b on tensors of one shape.
TensorAdd(a, b) == [k \in 1..Len(a) |-> a[k] + b[k]]

\* relaxation = rs[0]; relaxation += rs[i] for i in 1..n-1: rs is a list of
\* references to the tensors in cells, and the additions are in place on the
\* tensor rs[0] names.
RECURSIVE AccumulateInPlace(_, _, _)
AccumulateInPlace(cells, rs, i) ==
    IF i > Len(rs) THEN cells
    ELSE AccumulateInPlace(
             [cells EXCEPT ![rs[1]] = TensorAdd(cells[rs[1]], cells[rs[i]])], rs, i + 1)

\* F.relu(L_f_Vs[s].unsqueeze(-1) + torch.bmm(L_g_Vs[s].unsqueeze(1), u)
\*        + self.clf_lambda * V) at [i, 0, j]: the first two terms have shape
\* [B, 1, 1] and V has shape [B], so the sum is broadcast to [B, 1, B] and
\* its entry [i, 0, j] takes the Lie derivatives and u of element i and the V
\* of element j.
VdotTerm(n, batch, V, u, s, i, j) ==
    relu(batch[i].L_f_Vs[s] + Dot(batch[i].L_g_Vs[s], u[i]) + n.clf_lambda * V[j])

\* torch.tensor([0.0]): the tensor of the branch that bypasses the QP.
ZeroRelaxation == 0

\* A bypass that returns a zero control instead of the learned one.
BypassControlZero(u_learned) == [c \in 1..Len(u_learned) |-> 0]

\* u = u_learned: the learned control the bypass branch passes through.
BypassControl(u_learned) == u_learned

\* The accumulation across scenarios and the return value.  cells holds the
\* relaxation tensors and rs[s] names the tensor of scenario s.
ForwardReturn(n, batch, V, u, cells, rs, base) ==
    LET ns == Len(n.scenarios)
        B == Len(batch)
        acc == AccumulateInPlace(cells, rs, 2)
    IN  [base EXCEPT
            !.status = "ok",
            !.u = u,
            !.rs = [s \in 1..ns |-> cells[rs[s]]],
            !.relaxation = [k \in 1..Len(acc[rs[1]]) |-> Rat(acc[rs[1]][k], ns)],
            !.Vdot = [i \in 1..B |-> [j \in 1..B |->
                         Rat(SeqSum([s \in 1..ns |-> VdotTerm(n, batch, V, u, s, i, j)]),
                             ns)]]]

\* The value forward hands to the QP layer for clf_relaxation_penalty_param:
\* torch.tensor([self.clf_relaxation_penalty]).
ForwardPenalty(n) == n.clf_relaxation_penalty

\* The ways to take one solution per batch element.
Choices(sols) ==
    {pick \in [1..Len(sols) -> UNION {sols[i] : i \in 1..Len(sols)}] :
        \A i \in 1..Len(sols) : pick[i] \in sols[i]}

\* Every record forward can leave for the batch: its inputs, what it bound to
\* the QP, and either its return value or the error it raised.
ForwardResults(n, batch) ==
    LET B == Len(batch)
        ns == Len(n.scenarios)
        cl == Strict([i \in 1..B |-> ComputeLyapunov(batch[i])])
        V == Strict([i \in 1..B |-> cl[i].V])
        uc == Strict([i \in 1..B |-> ComputeControls(n, batch[i].K, batch[i].dx)])
        base == [status |-> "error", batch |-> batch, use_QP |-> n.use_QP, V |-> V,
                 grad_V |-> [i \in 1..B |-> cl[i].grad_V],
                 K_rows |-> uc[1].K_rows, K_cols |-> uc[1].K_cols,
                 u_learned |-> <<>>, bound |-> <<>>, u |-> <<>>, rs |-> <<>>,
                 relaxation |-> <<>>, Vdot |-> <<>>]
    IN  IF ~uc[1].ok THEN {base}
        ELSE
        LET ul == Strict([i \in 1..B |-> uc[i].u])
            b1 == [base EXCEPT !.u_learned = ul]
        IN  IF Len(ul[1]) # n.n_controls THEN {b1}
            ELSE IF n.use_QP
            THEN LET b == Strict([i \in 1..B |->
                              BindParameters(n.qp_parameters,
                                  batch[i].L_f_Vs \o batch[i].L_g_Vs
                                      \o <<V[i], ul[i], ForwardPenalty(n)>>)])
                     b2 == [b1 EXCEPT !.bound = b]
                     sols == Strict([i \in 1..B |-> QPSolve(n, b[i])])
                 IN  IF \E i \in 1..B : sols[i] = {}
                     THEN {[b2 EXCEPT !.status = "solver_error"]}
                     ELSE {LET result == Strict([i \in 1..B |-> QPResult(n.qp_variables, pick[i])])
                           IN  ForwardReturn(n, batch, V,
                                   [i \in 1..B |-> result[i][1]],
                                   [s \in 1..ns |-> [i \in 1..B |-> result[i][s + 1]]],
                                   [s \in 1..ns |-> s], b2) : pick \in Choices(sols)}
            ELSE {ForwardReturn(n, batch, V, [i \in 1..B |-> BypassControl(ul[i])],
                                << <<ZeroRelaxation>> >>, [s \in 1..ns |-> 1], b1)}

\* One call of forward; the record of the call is kept.
Forward ==
    /\ net.built
    /\ fwd.status = "none"
    /\ \E batch \in FwdBatches(net) : \E r \in ForwardResults(net, batch) : fwd' = r
    /\ UNCHANGED <<cfg, net, err, lossrec, train, calls>>

(***************************************************************************)
(* lyapunov_loss and controller_loss                                       *)
(***************************************************************************)
RECURSIVE GCD(_, _)
GCD(a, b) == IF b = 0 THEN a ELSE GCD(b, a % b)

Abs(x) == IF x < 0 THEN -x ELSE x

\* Fractions in lowest terms; 0/0 stands for NaN, the mean of no elements.
NaN == Rat(0, 0)
RIsNaN(a) == a.den = 0
RNorm(a) ==
    IF a.den = 0 THEN NaN
    ELSE LET g == GCD(Abs(a.num), a.den) IN Rat(a.num \div g, a.den \div g)
RPlus(a, b) == IF RIsNaN(a) \/ RIsNaN(b) THEN NaN ELSE RNorm(RAdd(a, b))
RTimes(a, b) == IF RIsNaN(a) \/ RIsNaN(b) THEN NaN ELSE RNorm(RMul(a, b))
RMinus(a, b) == RPlus(a, RTimes(RInt(-1), b))
RRelu(a) == IF RIsNaN(a) THEN NaN ELSE IF a.num > 0 THEN a ELSE RInt(0)
RSame(a, b) == RNorm(a) = RNorm(b)

RECURSIVE RSum(_)
RSum(s) == IF s = <<>> THEN RInt(0) ELSE RPlus(s[1], RSum(Tail(s)))

\* tensor.mean(): NaN for a tensor without elements.
RMean(s) == IF s = <<>> THEN NaN ELSE RTimes(RSum(s), Rat(1, Len(s)))

\* An indexing that ignores the mask.
SelectAll(s, mask) == s

\* x[mask]: the elements the mask selects, in order.
RECURSIVE Select(_, _)
Select(s, mask) ==
    IF s = <<>> THEN <<>>
    ELSE (IF mask[1] THEN <<s[1]>> ELSE <<>>) \o Select(Tail(s), Tail(mask))

\* All entries of a [B, 1, B] tensor, in order.
RECURSIVE Flatten(_)
Flatten(m) == IF m = <<>> THEN <<>> ELSE m[1] \o Flatten(Tail(m))

TimestepVals == {Rat(1, 2)}
SafeLevelVals == {1}
LossCoeffVals == {Rat(1, 2)}
VNextVals == {0, 2}
UNominalVals == {0, 1}

\* The values of the nominal controller: one value repeated over the controls.
UNominals(nc) == {[k \in 1..nc |-> v] : v \in UNominalVals}

\* 100.0 * (term == 0), averaged.
PctSatisfied(term) == RMean([k \in 1..Len(term) |-> IF term[k].num = 0 THEN RInt(100) ELSE RInt(0)])

\* The value lyapunov_loss returns, with the terms it printed.
LossReturnedWithDiagnostics(loss, printed) ==
    IF printed.on /\ ~RIsNaN(printed.tuning) THEN RPlus(loss, printed.tuning) ELSE loss

\* return loss
LossReturned(loss, printed) == loss

\* lyapunov_loss(x, x_goal, safe_mask, unsafe_mask, net, clf_lambda, safe_level,
\* timestep, print_loss), given what net(x) returned.  a.V_next[i][s] is the
\* Lyapunov value of element i one timestep ahead in scenario s.
LyapunovLoss(n, a, fr, print_loss) ==
    LET B == Len(a.batch)
        ns == Len(n.scenarios)
        V0 == LyapunovValue(a.goal_act)
        goal_term == <<RInt(relu(V0) * relu(V0))>>
        loss1 == RPlus(RInt(0), RMean(goal_term))
        V_safe == Select(fr.V, a.safe_mask)
        safe_lyap_term == [k \in 1..Len(V_safe) |-> RInt(100 * relu(V_safe[k] - a.safe_level))]
        loss2 == IF Len(safe_lyap_term) > 0 THEN RPlus(loss1, RMean(safe_lyap_term)) ELSE loss1
        V_unsafe == Select(fr.V, a.unsafe_mask)
        unsafe_lyap_term == [k \in 1..Len(V_unsafe) |-> RInt(100 * relu(a.safe_level - V_unsafe[k]))]
        loss3 == IF Len(unsafe_lyap_term) > 0 THEN RPlus(loss2, RMean(unsafe_lyap_term)) ELSE loss2
        decay == RMinus(RInt(1), RTimes(RInt(a.clf_lambda), a.timestep))
        lyap_descent_term_sim ==
            [i \in 1..B |->
                RSum([s \in 1..ns |->
                    RRelu(RMinus(RInt(a.V_next[i][s]), RTimes(decay, RInt(fr.V[i]))))])]
        lyap_descent_term_expected == Flatten(fr.Vdot)
        loss4 == RPlus(loss3, RPlus(RMean(lyap_descent_term_sim),
                                    RMean(lyap_descent_term_expected)))
        loss5 == RPlus(loss4, RMean(fr.relaxation))
        tuning_signal == [i \in 1..B |->
            RTimes(Rat(1, 10), RMean([k \in 1..Len(a.batch[i].dx) |->
                                         RInt(a.batch[i].dx[k] * a.batch[i].dx[k])]))]
        lyap_tuning_term == [i \in 1..B |-> RRelu(RMinus(tuning_signal[i], RInt(fr.V[i])))]
        printed ==
            IF print_loss
            THEN [on |-> TRUE,
                  origin |-> RMean(goal_term),
                  safe |-> RMean(safe_lyap_term), safe_pct |-> PctSatisfied(safe_lyap_term),
                  unsafe |-> RMean(unsafe_lyap_term), unsafe_pct |-> PctSatisfied(unsafe_lyap_term),
                  descent |-> RMean(lyap_descent_term_sim),
                  descent_pct |-> PctSatisfied(lyap_descent_term_sim),
                  relaxation |-> RMean(fr.relaxation),
                  tuning |-> RMean(lyap_tuning_term)]
            ELSE [on |-> FALSE]
    IN  [loss |-> LossReturned(loss5, printed), printed |-> printed]

\* controller_loss(x, net, print_loss, use_nominal, use_eq, loss_coeff), given
\* what net(x) returned.  a.u_nominal[i] is net.u_nominal at element i, and
\* a.use_eq.u is net.u_nominal at the point use_eq.
SquaredDistance(u, ref) == SeqSum([k \in 1..Len(u) |-> (ref[k] - u[k]) * (ref[k] - u[k])])

\* A choice of reference that looks at use_eq first.
ControllerReferenceEqFirst(a, i, nc) ==
    IF a.use_eq.given THEN a.use_eq.u
    ELSE IF a.use_nominal THEN a.u_nominal[i]
    ELSE [k \in 1..nc |-> 0]

ControllerReference(a, i, nc) ==
    IF a.use_nominal THEN a.u_nominal[i]
    ELSE IF a.use_eq.given THEN a.use_eq.u
    ELSE [k \in 1..nc |-> 0]

ControllerLoss(n, a, fr, print_loss) ==
    LET B == Len(a.batch)
        u_learned == fr.u
        controller_squared_error ==
            [i \in 1..B |->
                RTimes(a.loss_coeff,
                       RInt(SquaredDistance(u_learned[i],
                                            ControllerReference(a, i, Len(u_learned[i])))))]
        loss == RMean(controller_squared_error)
        printed == IF print_loss THEN [on |-> TRUE, controller |-> RMean(controller_squared_error)]
                   ELSE [on |-> FALSE]
    IN  [loss |-> loss, printed |-> printed]

\* The elements the losses are evaluated on: one gain row and one set of Lie
\* derivatives repeated over rows and scenarios.
LossElements(n, ks, lgs) ==
    {e \in ElementsOver(n, ks, lgs) :
        /\ \A j \in 1..Len(e.act) : e.act[j] >= 0
        /\ \A r \in 1..NGainRows : e.K[r] = e.K[1]
        /\ \A s \in 1..Len(n.scenarios) :
               /\ e.L_f_Vs[s] = e.L_f_Vs[1]
               /\ e.L_g_Vs[s] = e.L_g_Vs[1]
               /\ \A k \in 1..n.n_controls : e.L_g_Vs[s][k] = e.L_g_Vs[1][1]}

LossBatches(n) ==
    {<<e>> : e \in LossElements(n, KVals, LgVals)}
        \cup UNION {Vectors(LossElements(n, {0}, {0}), k) : k \in 2..MaxBatch}

LyapunovLossArgs(n, batch) ==
           [batch : {batch},
            goal_act : Vectors({0, 2}, n.n_hidden),
            safe_mask : Vectors(BOOLEAN, Len(batch)),
            unsafe_mask : Vectors(BOOLEAN, Len(batch)),
            V_next : Vectors({[s \in 1..Len(n.scenarios) |-> v] : v \in VNextVals}, Len(batch)),
            clf_lambda : LambdaVals,
            safe_level : SafeLevelVals,
            timestep : TimestepVals]

ControllerLossArgs(n, batch) ==
           [batch : {batch},
            use_nominal : BOOLEAN,
            use_eq : {[given |-> FALSE, u |-> <<>>]}
                        \cup [given : {TRUE}, u : UNominals(n.n_controls)],
            u_nominal : Vectors(UNominals(n.n_controls), Len(batch)),
            loss_coeff : LossCoeffVals]

\* The networks the losses are called on: built with as many controls as
\* compute_controls has gain rows, with the QP on or off.
LossNets ==
    {[BuiltNet(a) EXCEPT !.use_QP = q] :
        a \in {c \in ConstructArgs : /\ c.n_controls = NGainRows
                                      /\ Len(c.u_eq) = c.n_controls
                                      /\ InitError(c) = "none"},
        q \in BOOLEAN}

InitLoss ==
    /\ net \in LossNets
    /\ cfg = NoCfg
    /\ err = "none"
    /\ fwd = NoFwd
    /\ lossrec = [status |-> "none"]
    /\ train = [pc |-> "off"]
    /\ calls = <<>>

\* One call of lyapunov_loss; the call and its result are kept.  An error
\* raised by net(x) leaves the function.
CallLyapunovLoss ==
    /\ lossrec.status = "none"
    /\ \E batch \in LossBatches(net) :
       \E fr \in ForwardResults(net, batch) :
       \E a \in LyapunovLossArgs(net, batch), print_loss \in BOOLEAN :
          lossrec' = IF fr.status = "ok"
                     THEN [status |-> "ok", fn |-> "lyapunov_loss", args |-> a,
                           print_loss |-> print_loss, fr |-> fr, net_before |-> net,
                           result |-> LyapunovLoss(net, a, fr, print_loss)]
                     ELSE [status |-> "raised", fn |-> "lyapunov_loss", args |-> a,
                           print_loss |-> print_loss, fr |-> fr, net_before |-> net]
    /\ UNCHANGED <<cfg, net, err, fwd, train, calls>>

\* One call of controller_loss.
CallControllerLoss ==
    /\ lossrec.status = "none"
    /\ \E batch \in LossBatches(net) :
       \E fr \in ForwardResults(net, batch) :
       \E a \in ControllerLossArgs(net, batch), print_loss \in BOOLEAN :
          lossrec' = IF fr.status = "ok"
                     THEN [status |-> "ok", fn |-> "controller_loss", args |-> a,
                           print_loss |-> print_loss, fr |-> fr, net_before |-> net,
                           result |-> ControllerLoss(net, a, fr, print_loss)]
                     ELSE [status |-> "raised", fn |-> "controller_loss", args |-> a,
                           print_loss |-> print_loss, fr |-> fr, net_before |-> net]
    /\ UNCHANGED <<cfg, net, err, fwd, train, calls>>

NextLoss == CallLyapunovLoss \/ CallControllerLoss

SpecLoss == InitLoss /\ [][NextLoss]_vars

(***************************************************************************)
(* Repeated calls of compute_lyapunov and forward on one network           *)
(***************************************************************************)
\* A forward that leaves the QP switched off behind it.
NetAfterForwardBypassed(n, r) == [n EXCEPT !.use_QP = FALSE]

\* The network object after forward returned r: forward and the methods it
\* calls assign to no attribute of self and rebuild nothing.
NetAfterForward(n, r) == n

InitCalls ==
    /\ net \in LossNets
    /\ cfg = NoCfg
    /\ err = "none"
    /\ fwd = NoFwd
    /\ lossrec = [status |-> "none"]
    /\ train = [pc |-> "off"]
    /\ calls = <<>>

\* net.compute_lyapunov(x) on a batch x.
CallComputeLyapunov ==
    /\ Len(calls) < MaxCalls
    /\ \E x \in LossBatches(net) :
        LET cl == [i \in 1..Len(x) |-> ComputeLyapunov(x[i])]
        IN  calls' = Append(calls,
                [fn |-> "compute_lyapunov", x |-> x, status |-> "ok",
                 V |-> [i \in 1..Len(x) |-> cl[i].V],
                 grad_V |-> [i \in 1..Len(x) |-> cl[i].grad_V],
                 net_before |-> net, net_after |-> net])
    /\ UNCHANGED <<cfg, net, err, fwd, lossrec, train>>

\* net(x) on a batch x; V and grad_V are the values its first line obtained
\* from compute_lyapunov.
CallForward ==
    /\ Len(calls) < MaxCalls
    /\ \E x \in LossBatches(net) : \E r \in ForwardResults(net, x) :
        /\ net' = NetAfterForward(net, r)
        /\ fwd' = r
        /\ calls' = Append(calls,
                [fn |-> "forward", x |-> x, status |-> r.status,
                 V |-> r.V, grad_V |-> r.grad_V,
                 net_before |-> net, net_after |-> net'])
    /\ UNCHANGED <<cfg, err, lossrec, train>>

NextCalls == CallComputeLyapunov \/ CallForward

SpecCalls == InitCalls /\ [][NextCalls]_vars

(***************************************************************************)
(* The training script: neural_clf/training/quad9d_robust_clf_qp.py       *)
(***************************************************************************)
RECURSIVE Pow(_, _)
Pow(b, e) == IF e = 0 THEN 1 ELSE b * Pow(b, e - 1)

RECURSIVE SeqMin(_)
SeqMin(s) == IF Len(s) = 1 THEN s[1]
             ELSE IF s[1] <= SeqMin(Tail(s)) THEN s[1] ELSE SeqMin(Tail(s))

Min(a, b) == IF a <= b THEN a ELSE b

Perms(n) == {q \in [1..n -> 1..n] : \A i, j \in 1..n : q[i] = q[j] => i = j}

\* The arguments the script constructs the network with: one scenario, no
\* control polytope.
TrainArgs ==
    {a \in ConstructArgs :
        /\ a.scenarios = <<"m_low">>
        /\ a.n_controls = NGainRows /\ Len(a.u_eq) = NGainRows
        /\ a.lambda_kind = "const"
        /\ a.poly = PNone}

\* A script that leaves the QP on.
TrainUseQPOn == TRUE

\* clf_net.use_QP = False, before the optimizer is created.
TrainUseQP == FALSE

\* adjust_relaxation_penalty: relaxation_penalty * (2 ** (epoch // 2)), stored
\* in the attribute relaxation_penalty of the network.
PenaltySchedule(relaxation_penalty, epoch) == relaxation_penalty * Pow(2, epoch \div 2)

\* adjust_learning_rate: lr = learning_rate = 1e-3; param_group['lr'] = max(lr, 1e-4).
LearningRate(epoch) ==
    IF RLe(Rat(1, 10000), Rat(1, 1000)) THEN Rat(1, 1000) ELSE Rat(1, 10000)

\* A slice that starts at the head of the permutation for every batch.
BatchIndicesFromStart(permutation, i) == SubSeq(permutation, 1, Min(BatchSize, NTrain))

\* permutation[i:i+batch_size]
BatchIndices(permutation, i) == SubSeq(permutation, i + 1, Min(i + BatchSize, NTrain))

\* adjust_controller_penalty: max(0.1 * 0.1 ** epoch, 1e-5), as a fraction.
ControllerPenalty(epoch) == Rat(1, Min(Pow(10, epoch + 1), 100000))

\* A comparison that also saves on a tie with the best loss.
ShouldSaveOnTie(test_losses, loss) == test_losses = <<>> \/ loss <= SeqMin(test_losses)

\* not test_losses or loss.item() < min(test_losses)
ShouldSave(test_losses, loss) == test_losses = <<>> \/ loss < SeqMin(test_losses)

\* The state when the loop starts: the checkpoint file loaded, the network
\* built from the script's constants, the QP toggled off.  weights is the
\* number of optimizer steps that made the current parameter values;
\* eval_weights and saves log, per finished epoch, the parameter values the
\* evaluation saw and whether torch.save was called.
InitTrain ==
    /\ \E a \in TrainArgs :
        /\ cfg = a
        /\ net = [BuiltNet(a) EXCEPT !.use_QP = TrainUseQP]
        /\ train = [pc |-> "epoch", epoch |-> 0, relaxation_penalty |-> a.clf_relaxation_penalty,
                    permutation |-> <<>>, i |-> 0, indices |-> <<>>, presented |-> <<>>,
                    controller_loss_coeff |-> Rat(0, 1), lr |-> Rat(1, 1000),
                    weights |-> 0, test_losses |-> <<>>,
                    checkpoint |-> [written |-> FALSE, relaxation_penalty |-> a.clf_relaxation_penalty,
                                    clf_net |-> 0],
                    last_eval |-> [done |-> FALSE],
                    eval_weights |-> <<>>, saves |-> <<>>]
    /\ err = "none"
    /\ fwd = NoFwd
    /\ lossrec = [status |-> "none"]
    /\ calls = <<>>

\* Lines 159-169: the start of an epoch.
EpochStart ==
    /\ train.pc = "epoch"
    /\ train.epoch < MaxEpochs
    /\ \E q \in Perms(NTrain) :
        train' = [train EXCEPT
                     !.permutation = q,
                     !.lr = LearningRate(train.epoch),
                     !.controller_loss_coeff = ControllerPenalty(train.epoch),
                     !.i = 0, !.indices = <<>>, !.presented = <<>>,
                     !.pc = IF NTrain > 0 THEN "zero_grad" ELSE "eval"]
    /\ net' = [net EXCEPT !.dyn = {<<"relaxation_penalty",
                                     PenaltySchedule(train.relaxation_penalty, train.epoch)>>}]
    /\ UNCHANGED <<cfg, err, fwd, lossrec, calls>>

\* Lines 171-182: the batch's indices and masks, optimizer.zero_grad().
ZeroGrad ==
    /\ train.pc = "zero_grad"
    /\ train' = [train EXCEPT
                    !.indices = BatchIndices(train.permutation, train.i),
                    !.pc = "loss"]
    /\ UNCHANGED <<cfg, net, err, fwd, lossrec, calls>>

\* Lines 185-196: lyapunov_loss + controller_loss on the batch.
BatchLoss ==
    /\ train.pc = "loss"
    /\ train' = [train EXCEPT !.presented = train.presented \o train.indices,
                              !.pc = "backward"]
    /\ UNCHANGED <<cfg, net, err, fwd, lossrec, calls>>

\* Lines 199-200: loss.backward().
Backward ==
    /\ train.pc = "backward"
    /\ train' = [train EXCEPT !.pc = "step"]
    /\ UNCHANGED <<cfg, net, err, fwd, lossrec, calls>>

\* Line 203 and the loop header: optimizer.step(), then the next batch or the
\* end of the loop over batches.
OptimizerStep ==
    /\ train.pc = "step"
    /\ train' = [train EXCEPT
                    !.weights = train.weights + 1,
                    !.i = train.i + BatchSize,
                    !.pc = IF train.i + BatchSize < NTrain THEN "zero_grad" ELSE "eval"]
    /\ UNCHANGED <<cfg, net, err, fwd, lossrec, calls>>

\* Lines 206-239: the evaluation on the test set and the checkpoint.
Evaluate ==
    /\ train.pc = "eval"
    /\ \E loss \in 0..MaxLoss :
        LET save == ShouldSave(train.test_losses, loss)
        IN  train' = [train EXCEPT
                !.last_eval = [done |-> TRUE, use_QP |-> net.use_QP, print_loss |-> TRUE,
                               epoch |-> train.epoch, forward_penalty |-> ForwardPenalty(net)],
                !.checkpoint =
                    IF save
                    THEN [written |-> TRUE,
                          relaxation_penalty |->
                              (CHOOSE d \in net.dyn : d[1] = "relaxation_penalty")[2],
                          clf_net |-> train.weights]
                    ELSE train.checkpoint,
                !.test_losses = Append(train.test_losses, loss),
                !.eval_weights = Append(train.eval_weights, train.weights),
                !.saves = Append(train.saves, save),
                !.epoch = train.epoch + 1,
                !.pc = "epoch"]
    /\ UNCHANGED <<cfg, net, err, fwd, lossrec, calls>>

NextTrain == EpochStart \/ ZeroGrad \/ BatchLoss \/ Backward \/ OptimizerStep \/ Evaluate

SpecTrain == InitTrain /\ [][NextTrain]_vars

Init ==
    /\ cfg = NoCfg
    /\ net = NoNet
    /\ err = "none"
    /\ fwd = NoFwd
    /\ lossrec = [status |-> "none"]
    /\ train = [pc |-> "off"]
    /\ calls = <<>>

NextNet == Construct \/ SetUseQP \/ Forward

SpecNet == Init /\ [][NextNet]_vars

(***************************************************************************)
(* Claims about construction and forward, checked under SpecNet.           *)
(***************************************************************************)
\* Whether the last forward call reached the QP layer with bound parameters.
FwdBound == fwd.status \in {"ok", "solver_error"} /\ fwd.use_QP

\* C1: with use_QP False, forward returns u equal to the learned control of
\* compute_controls, every per-scenario relaxation zero and a zero returned
\* (averaged) relaxation, for any batch and any number of scenarios.
C1_BypassPassesLearnedControl ==
    (fwd.status = "ok" /\ ~fwd.use_QP) =>
        /\ fwd.u = fwd.u_learned
        /\ Len(fwd.rs) = Len(net.scenarios)
        /\ \A s \in 1..Len(fwd.rs) : \A k \in 1..Len(fwd.rs[s]) : fwd.rs[s][k] = 0
        /\ \A k \in 1..Len(fwd.relaxation) : RIsZero(fwd.relaxation[k])

C1_Witness ==
    /\ fwd.status = "ok" /\ ~fwd.use_QP
    /\ Len(net.scenarios) = 2
    /\ fwd.u_learned = << <<1, 0>> >>

\* C2: with the QP enabled, the u and r_s forward obtains from the solve
\* satisfy, in every scenario s, L_f V_s + L_g V_s.u + lambda V - r_s <= 0 and
\* r_s >= 0 for the Lie derivatives forward computed for that scenario, and
\* G_u u <= h_u when a non-empty control polytope was supplied.
C2_SolveSatisfiesConstraints ==
    (fwd.status = "ok" /\ fwd.use_QP) =>
        \A i \in 1..Len(fwd.batch) :
            /\ \A s \in 1..Len(net.scenarios) :
                /\ fwd.batch[i].L_f_Vs[s] + Dot(fwd.batch[i].L_g_Vs[s], fwd.u[i])
                       + net.clf_lambda * fwd.V[i] - fwd.rs[s][i] <= 0
                /\ fwd.rs[s][i] >= 0
            /\ Len(net.G_u) > 0 =>
                   \A k \in 1..Len(net.G_u) : Dot(net.G_u[k], fwd.u[i]) <= net.h_u[k]

C2_Witness ==
    /\ fwd.status = "ok" /\ fwd.use_QP
    /\ Len(net.scenarios) = 2
    /\ fwd.batch[1].L_f_Vs[1] # fwd.batch[1].L_f_Vs[2]
    /\ Len(net.G_u) > 0
    /\ fwd.rs[1][1] > 0
    /\ fwd.u[1] # fwd.u_learned[1]

\* The point of the claim C3: u = 0, r_s = L_f V_s + lambda V.
C3Point(n, b) ==
    <<[c \in 1..n.n_controls |-> 0],
      [i \in 1..Len(n.scenarios) |-> b[LfParam(i)] + n.clf_lambda * b[VParam]]>>

\* The point with the relaxations cut off at zero.
C3PointClipped(n, b) ==
    <<[c \in 1..n.n_controls |-> 0],
      [i \in 1..Len(n.scenarios) |-> relu(b[LfParam(i)] + n.clf_lambda * b[VParam])]>>

\* C3 as stated: for every parameter value, with or without control bounds,
\* u = 0, r_s = L_f V_s + lambda V satisfies every constraint of the QP.
C3_AsStated ==
    FwdBound =>
        \A i \in 1..Len(fwd.bound) :
            QPFeasible(net, fwd.bound[i], C3Point(net, fwd.bound[i])[1],
                       C3Point(net, fwd.bound[i])[2])

\* C3 amended: u = 0, r_s = max(0, L_f V_s + lambda V) satisfies every
\* constraint of the QP whenever no control bounds were supplied or every
\* entry of h_u is non-negative.
C3_ClippedPointFeasible ==
    (FwdBound /\ (net.qp_bounded => \A k \in 1..Len(net.h_u) : net.h_u[k] >= 0)) =>
        \A i \in 1..Len(fwd.bound) :
            QPFeasible(net, fwd.bound[i], C3PointClipped(net, fwd.bound[i])[1],
                       C3PointClipped(net, fwd.bound[i])[2])

C3_Witness ==
    /\ FwdBound
    /\ net.qp_bounded /\ \A k \in 1..Len(net.h_u) : net.h_u[k] >= 0
    /\ Len(net.scenarios) = 2
    /\ fwd.bound[1][LfParam(1)] + net.clf_lambda * fwd.bound[1][VParam] < 0
    /\ fwd.bound[1][LfParam(2)] + net.clf_lambda * fwd.bound[1][VParam] > 0

\* Whether the last constructor call was given what C4 lists, the column count
\* compared for every two-dimensional G_u (as stated) or for a G_u with rows.
C4BadArgs(a, any_rows) ==
    \/ Len(a.scenarios) = 0
    \/ Len(a.poly.G) # Len(a.poly.h)
    \/ /\ a.poly.dims = 2
       /\ any_rows \/ Len(a.poly.G) > 0
       /\ a.poly.cols # a.n_controls
    \/ a.lambda_kind = "param"

\* C4 as stated: construction raises, leaving no network and no QP layer,
\* when the scenario list is empty, when G_u and h_u have mismatched
\* dimensions (G_u's column count differing from n_controls included) or when
\* the QP is not disciplined-parametrized; no forward call precedes it.
C4_AsStated ==
    /\ (cfg.tried /\ C4BadArgs(cfg, TRUE)) => (~net.built /\ err # "none")
    /\ fwd.status # "none" => (net.built /\ err = "none")

\* C4 amended: as stated, the column count of G_u counting only when G_u has
\* at least one row.
C4_ConstructionFails ==
    /\ (cfg.tried /\ C4BadArgs(cfg, FALSE)) => (~net.built /\ err # "none")
    /\ fwd.status # "none" => (net.built /\ err = "none")

C4_Witness ==
    /\ cfg.tried /\ ~net.built /\ err # "none"
    /\ Len(cfg.scenarios) > 0
    /\ Len(cfg.poly.G) = Len(cfg.poly.h)
    /\ cfg.lambda_kind = "const"

\* C10: compute_controls builds a gain K of n_controls rows and n_input
\* columns and returns a u_learned with n_controls entries per batch element,
\* the dimension of the QP's control variable and nominal-target parameter.
C10_GainHasNControlsRows ==
    fwd.status # "none" =>
        /\ fwd.K_rows = net.n_controls
        /\ fwd.K_cols = net.n_input
        /\ \A i \in 1..Len(fwd.u_learned) : Len(fwd.u_learned[i]) = net.n_controls

(***************************************************************************)
(* Claims about the training loop, checked under SpecTrain.                *)
(***************************************************************************)
\* The first epoch (1-based) whose test loss is the least of the list.
EarliestMin(L) == CHOOSE e \in 1..Len(L) :
    /\ \A j \in 1..Len(L) : L[e] <= L[j]
    /\ \A j \in 1..(e - 1) : L[j] > L[e]

\* C5: a checkpoint is written at the end of an epoch iff its test loss is
\* strictly lower than that of every earlier epoch (the first epoch always
\* writes), so the persisted checkpoint holds the parameters of the earliest
\* epoch that attains the least test loss so far.
C5_CheckpointOnStrictImprovement ==
    LET L == train.test_losses
    IN  /\ Len(train.saves) = Len(L)
        /\ \A e \in 1..Len(L) :
               train.saves[e] <=> (\A j \in 1..(e - 1) : L[e] < L[j])
        /\ Len(L) > 0 =>
               /\ train.checkpoint.written
               /\ train.checkpoint.clf_net = train.eval_weights[EarliestMin(L)]

C5_Witness ==
    /\ train.test_losses = <<1, 0, 0>>
    /\ train.saves = <<TRUE, TRUE, FALSE>>
    /\ train.checkpoint.clf_net = train.eval_weights[2]
    /\ train.weights # train.checkpoint.clf_net

\* C6 as stated: after every epoch the held-out evaluation is computed with
\* the network's QP enabled (use_QP = True) and with print_loss = True.
C6_AsStated ==
    train.last_eval.done => (train.last_eval.use_QP /\ train.last_eval.print_loss)

\* C6 amended: after every epoch the held-out evaluation is computed with the
\* QP bypassed (use_QP = False, as the script sets it before the loop) and
\* with print_loss = True.
C6_EvaluationBypassesQP ==
    /\ train.last_eval.done => (~train.last_eval.use_QP /\ train.last_eval.print_loss)
    /\ train.pc = "epoch" => (train.last_eval.done <=> train.epoch > 0)

C6_Witness ==
    /\ train.last_eval.done
    /\ train.pc = "epoch" /\ train.epoch = 2
    /\ ~train.last_eval.use_QP

\* C7: during epoch e (from 0) the penalty forward hands to the QP's
\* relaxation_penalty parameter is initial_penalty * 2^(e div 2), and that
\* value is the one recorded in the checkpoint.
C7_ForwardFollowsSchedule ==
    (train.last_eval.done) =>
        /\ train.last_eval.forward_penalty
               = train.relaxation_penalty * Pow(2, train.last_eval.epoch \div 2)
        /\ (train.saves[Len(train.saves)] =>
                train.checkpoint.relaxation_penalty = train.last_eval.forward_penalty)

(***************************************************************************)
(* Claims about the loss functions, checked under SpecLoss.                *)
(***************************************************************************)
\* The result the recorded call would have had with print_loss flipped.
LossWithOtherMode ==
    IF lossrec.fn = "lyapunov_loss"
    THEN LyapunovLoss(lossrec.net_before, lossrec.args, lossrec.fr, ~lossrec.print_loss)
    ELSE ControllerLoss(lossrec.net_before, lossrec.args, lossrec.fr, ~lossrec.print_loss)

\* C8: lyapunov_loss and controller_loss return the same scalar with
\* print_loss = True as with print_loss = False, for every input (batches in
\* which safe_mask or unsafe_mask selects nothing included), and a call in
\* either mode leaves the network as it was.
C8_PrintLossLeavesResult ==
    /\ lossrec.status # "none" => net = lossrec.net_before
    /\ lossrec.status = "ok" =>
          /\ lossrec.result.printed.on = lossrec.print_loss
          /\ LossWithOtherMode.printed.on = ~lossrec.print_loss
          /\ LossWithOtherMode.loss = lossrec.result.loss

C8_Witness ==
    /\ lossrec.status = "ok"
    /\ lossrec.fn = "lyapunov_loss"
    /\ lossrec.print_loss
    /\ Len(lossrec.args.batch) = 2
    /\ \A i \in 1..2 : ~lossrec.args.safe_mask[i]
    /\ \E i \in 1..2 : lossrec.args.unsafe_mask[i]
    /\ RIsNaN(lossrec.result.printed.safe)
    /\ lossrec.result.printed.tuning.num > 0
    /\ ~RIsNaN(lossrec.result.loss)

\* loss_coeff times the batch mean of the squared distance from u to the
\* reference the mode selects.
C9Loss(u) ==
    LET a == lossrec.args
        nc == lossrec.net_before.n_controls
        ref == [i \in 1..Len(a.batch) |->
                   IF a.use_nominal THEN a.u_nominal[i]
                   ELSE IF a.use_eq.given THEN a.use_eq.u
                   ELSE [k \in 1..nc |-> 0]]
    IN  RTimes(a.loss_coeff,
               RMean([i \in 1..Len(a.batch) |-> RInt(SquaredDistance(u[i], ref[i]))]))

\* C9 as stated: controller_loss returns loss_coeff times the batch mean of
\* the squared deviation of the compute_controls output (unfiltered, whether
\* or not the QP is enabled) from the reference chosen by mode.
C9_AsStated ==
    (lossrec.status = "ok" /\ lossrec.fn = "controller_loss") =>
        RSame(lossrec.result.loss, C9Loss(lossrec.fr.u_learned))

\* C9 amended: controller_loss returns loss_coeff times the batch mean of the
\* squared deviation of the control forward returns (the QP's solution when
\* use_QP is set, the compute_controls output when it is not) from exactly one
\* reference: the nominal controller at x when use_nominal is set; otherwise
\* the nominal controller at use_eq when use_eq is given; otherwise zero.
C9_LossOfReturnedControl ==
    (lossrec.status = "ok" /\ lossrec.fn = "controller_loss") =>
        /\ RSame(lossrec.result.loss, C9Loss(lossrec.fr.u))
        /\ ~lossrec.net_before.use_QP => lossrec.fr.u = lossrec.fr.u_learned

C9_Witness ==
    /\ lossrec.status = "ok"
    /\ lossrec.fn = "controller_loss"
    /\ lossrec.net_before.use_QP
    /\ lossrec.fr.u # lossrec.fr.u_learned
    /\ lossrec.args.use_nominal
    /\ lossrec.args.use_eq.given
    /\ lossrec.args.use_eq.u # lossrec.args.u_nominal[1]
    /\ lossrec.result.loss.num > 0

C12_LyapunovNonNegative ==
    fwd.status # "none" =>
        \A i \in 1..Len(fwd.batch) :
            /\ 2 * fwd.V[i]
                   = SeqSum([j \in 1..Len(fwd.batch[i].act) |->
                                fwd.batch[i].act[j] * fwd.batch[i].act[j]])
            /\ fwd.V[i] >= 0
            /\ fwd.bound # <<>> =>
                   (fwd.bound[i][VParam] = fwd.V[i] /\ fwd.bound[i][VParam] >= 0)

C12_Witness ==
    /\ fwd.status = "ok" /\ fwd.use_QP
    /\ fwd.batch[1].act = <<-2>>
    /\ fwd.V[1] = 2
    /\ fwd.bound[1][VParam] = 2

(***************************************************************************)
(* The order of the steps of the training loop, checked under SpecTrain.   *)
(***************************************************************************)
\* The number of mini-batches of an epoch.
NumBatches == (NTrain + BatchSize - 1) \div BatchSize

C13InBatch == train.pc \in {"zero_grad", "loss", "backward", "step"}

\* What holds of every state of the loop.
C13State ==
    /\ (C13InBatch \/ train.pc = "eval") =>
          /\ net.dyn = {<<"relaxation_penalty",
                          PenaltySchedule(train.relaxation_penalty, train.epoch)>>}
          /\ train.controller_loss_coeff = ControllerPenalty(train.epoch)
          /\ train.lr = LearningRate(train.epoch)
          /\ train.permutation \in Perms(NTrain)
    /\ train.pc \in {"loss", "backward", "step"} =>
          /\ Len(train.indices) >= 1 /\ Len(train.indices) <= BatchSize
          /\ train.i + Len(train.indices) <= NTrain
          /\ train.indices = SubSeq(train.permutation, train.i + 1,
                                    train.i + Len(train.indices))
          /\ Len(train.indices) < BatchSize => train.i + Len(train.indices) = NTrain
    /\ train.pc \in {"zero_grad", "loss"} =>
          train.presented = SubSeq(train.permutation, 1, train.i)
    /\ train.pc \in {"backward", "step"} =>
          train.presented = SubSeq(train.permutation, 1, train.i + Len(train.indices))
    /\ train.pc = "eval" =>
          /\ train.presented = train.permutation
          /\ \A x \in 1..NTrain :
                 Cardinality({k \in 1..Len(train.presented) : train.presented[k] = x}) = 1
          /\ train.weights = (train.epoch + 1) * NumBatches

\* What holds of every step of the loop.
C13Step ==
    /\ train'.pc # train.pc =>
          \/ train.pc = "epoch" /\ train'.pc = "zero_grad" /\ train'.presented = <<>>
          \/ train.pc = "zero_grad" /\ train'.pc = "loss"
          \/ train.pc = "loss" /\ train'.pc = "backward"
          \/ train.pc = "backward" /\ train'.pc = "step"
          \/ train.pc = "step" /\ train'.pc \in {"zero_grad", "eval"}
          \/ train.pc = "eval" /\ train'.pc = "epoch"
    /\ train'.weights # train.weights =>
          (train.pc = "step" /\ train'.weights = train.weights + 1)
    /\ train'.presented # train.presented => train.pc \in {"epoch", "loss"}
    /\ train'.last_eval # train.last_eval => train.pc = "eval"
    /\ net'.dyn # net.dyn => train.pc = "epoch"

\* C13: in every epoch the schedules are applied before any batch; every
\* training index is presented in exactly one mini-batch, the batches being
\* slices of at most batch_size of a fresh permutation, the last possibly
\* smaller; each mini-batch goes zero gradients, loss, backpropagation,
\* optimizer step; and the evaluation of the epoch runs only after the
\* optimizer step of the last mini-batch.
C13_EpochOrder == [](C13State) /\ [][C13Step]_vars

C13_Witness ==
    /\ train.pc = "eval" /\ train.epoch = 1
    /\ train.presented = train.permutation
    /\ train.permutation # [k \in 1..NTrain |-> k]
    /\ Len(train.indices) < BatchSize
    /\ train.weights = 2 * NumBatches

(***************************************************************************)
(* The masked terms of lyapunov_loss, checked under SpecLoss.              *)
(***************************************************************************)
\* The mean of term[i] over the elements i the mask selects; zero when it
\* selects none.
C14MaskedMean(mask, term) ==
    LET sel == {i \in 1..Len(mask) : mask[i]}
        total == SeqSum([i \in 1..Len(mask) |-> IF mask[i] THEN term[i] ELSE 0])
    IN  IF sel = {} THEN RInt(0) ELSE Rat(total, Cardinality(sel))

\* The goal, descent and relaxation terms of the recorded call.
C14OtherTerms ==
    LET a == lossrec.args
        fr == lossrec.fr
        B == Len(a.batch)
        ns == Len(lossrec.net_before.scenarios)
        V0 == LyapunovValue(a.goal_act)
        decay == RMinus(RInt(1), RTimes(RInt(a.clf_lambda), a.timestep))
        sim == [i \in 1..B |->
                   RSum([s \in 1..ns |->
                       RRelu(RMinus(RInt(a.V_next[i][s]), RTimes(decay, RInt(fr.V[i]))))])]
    IN  RPlus(RInt(relu(V0) * relu(V0)),
              RPlus(RPlus(RMean(sim), RMean(Flatten(fr.Vdot))), RMean(fr.relaxation)))

\* C14: the safe-region term of lyapunov_loss is averaged over the elements
\* safe_mask selects and the unsafe-region term over those unsafe_mask
\* selects; a mask that selects nothing adds nothing, the loss then being the
\* sum of the goal, descent and relaxation terms, and no NaN enters the loss.
C14_MaskedTerms ==
    (lossrec.status = "ok" /\ lossrec.fn = "lyapunov_loss") =>
        LET a == lossrec.args
            V == lossrec.fr.V
            safe == C14MaskedMean(a.safe_mask,
                        [i \in 1..Len(V) |-> 100 * relu(V[i] - a.safe_level)])
            unsafe == C14MaskedMean(a.unsafe_mask,
                        [i \in 1..Len(V) |-> 100 * relu(a.safe_level - V[i])])
        IN  /\ ~RIsNaN(lossrec.result.loss)
            /\ RSame(lossrec.result.loss, RPlus(C14OtherTerms, RPlus(safe, unsafe)))
            /\ (\A i \in 1..Len(V) : ~a.safe_mask[i] /\ ~a.unsafe_mask[i]) =>
                   RSame(lossrec.result.loss, C14OtherTerms)

C14_Witness ==
    /\ lossrec.status = "ok" /\ lossrec.fn = "lyapunov_loss"
    /\ lossrec.args.safe_mask = <<TRUE, FALSE>>
    /\ lossrec.args.unsafe_mask = <<FALSE, FALSE>>
    /\ lossrec.fr.V = <<2, 0>>
    /\ ~RIsNaN(lossrec.result.loss)
    /\ RSame(lossrec.result.loss, RPlus(C14OtherTerms, RInt(100)))

(***************************************************************************)
(* The Vdot forward returns, checked under SpecNet.                        *)
(***************************************************************************)
\* The average over the scenarios of the positive part of
\* L_f V_s + L_g V_s . u + lambda V at element i of the recorded call.
C15OwnVdot(i) ==
    Rat(SeqSum([s \in 1..Len(net.scenarios) |->
                   relu(fwd.batch[i].L_f_Vs[s] + Dot(fwd.batch[i].L_g_Vs[s], fwd.u[i])
                            + net.clf_lambda * fwd.V[i])]),
        Len(net.scenarios))

\* C15: the Vdot forward returns for a batch element is the average over the
\* scenarios of the positive part of L_f V_s + L_g V_s . u + lambda V at that
\* element, hence never negative and zero exactly when the returned u meets
\* the unrelaxed CLF inequality in every scenario; and when (u, r_s) satisfy
\* the QP's constraints it is at most the returned relaxation, so a zero
\* relaxation implies a zero Vdot.
C15_VdotIsOwnDescent ==
    fwd.status = "ok" =>
        \A i \in 1..Len(fwd.batch) : \A j \in 1..Len(fwd.Vdot[i]) :
            /\ REq(fwd.Vdot[i][j], C15OwnVdot(i))
            /\ fwd.Vdot[i][j].num >= 0
            /\ fwd.Vdot[i][j].num = 0 <=>
                   \A s \in 1..Len(net.scenarios) :
                       fwd.batch[i].L_f_Vs[s] + Dot(fwd.batch[i].L_g_Vs[s], fwd.u[i])
                           + net.clf_lambda * fwd.V[i] <= 0
            /\ fwd.use_QP => RLe(fwd.Vdot[i][j], fwd.relaxation[i])
====
